---- MODULE Spec2Model ----
(***************************************************************************)
(* ID-card export of tomo-academy: the export button (ExportIdCardsButton) *)
(* and the two versions of utils/exportIdCards it can be linked with:      *)
(*   "dom"       src/src/utils/exportIdCards.ts  (captures the cards found *)
(*               in the document by data-card-id / data-side)              *)
(*   "offscreen" src/unnamed/part_003            (renders every card into  *)
(*               a temporary off-screen container and captures that)       *)
(* One action is the synchronous code that runs between two suspension     *)
(* points of the async functions (a timer, the html2canvas promise).       *)
(***************************************************************************)
EXTENDS Integers, Sequences, FiniteSets, TLC

VARIABLES employees, pipeline, domFront, domBack,
          isExporting, jobs, toasts, downloads, containers, inFlight, started,
          card, call

vars == <<employees, pipeline, domFront, domBack,
          isExporting, jobs, toasts, downloads, containers, inFlight, started,
          card, call>>

(* ------------------------------ bounds -------------------------------- *)

\* longest employee list handed to the button
MaxEmployees == 2
\* number of export jobs started in one behaviour
MaxJobs == 2

(* ------------------------- program constants -------------------------- *)

\* page format [85.6, 53.98] mm, in hundredths of a millimetre
PageW == 8560
PageH == 5398
\* setTimeout(resolve, 100) in renderAndCapture
SettleMs == 100
\* delay between the front and the back PNG of one employee
SideDelayMs == 100
\* delay after each employee: PNG, combined PDF, individual PDFs
PngEmployeeDelayMs == 200
PdfEmployeeDelayMs == 100
IndividualDelayMs == 300

Modes == {"png", "pdf", "individual"}
Pipelines == {"dom", "offscreen"}
Sides == {"front", "back"}

(* ------------------------------ employees ----------------------------- *)

\* Employee records (id, name, employeeId); names and ids are sequences of
\* characters so that the file-name formatting is computed, not assumed.
Roster ==
  << [id |-> "7", name |-> <<"G","r","a","c","e"," ","H","o","p","p","e","r">>,
      employeeId |-> <<"E","0","0","7">>],
     [id |-> "3", name |-> <<"A","d","a"," "," ","L","o","v","e","l","a","c","e">>,
      employeeId |-> <<"E","0","0","1">>],
     [id |-> "5", name |-> <<"A","l","a","n","\t","T","u","r","i","n","g">>,
      employeeId |-> <<"E","0","0","5">>],
     [id |-> "9", name |-> <<"L","i","n","u","s">>,
      employeeId |-> <<"E","0","0","9">>] >>

Min(a, b) == IF a < b THEN a ELSE b

EmployeeLists ==
  { [i \in 1..n |-> Roster[i]] : n \in 0..Min(MaxEmployees, Len(Roster)) }

Ids(emps) == { emps[i].id : i \in 1..Len(emps) }

(* ----------------------------- file names ----------------------------- *)

\* \s of the regular expression: the white space and line terminators of
\* ECMAScript. A character that cannot be written in a string is named by
\* its code point.
IsSpace(c) ==
  c \in {" ", "\t", "\n", "\r", "\f", "U+000B", "U+00A0", "U+1680", "U+2000",
         "U+2001", "U+2002", "U+2003", "U+2004", "U+2005", "U+2006", "U+2007",
         "U+2008", "U+2009", "U+200A", "U+2028", "U+2029", "U+202F", "U+205F",
         "U+3000", "U+FEFF"}

\* name.replace(/\s+/g, '_'): every maximal run of white space becomes one '_'
RECURSIVE ReplaceSpaces(_)
ReplaceSpaces(s) ==
  IF s = <<>> THEN <<>>
  ELSE IF IsSpace(Head(s))
       THEN IF Len(s) > 1 /\ IsSpace(s[2])
            THEN ReplaceSpaces(Tail(s))
            ELSE <<"_">> \o ReplaceSpaces(Tail(s))
       ELSE <<Head(s)>> \o ReplaceSpaces(Tail(s))

\* mutant of FileName: the name is used as it is
FileNameKeepsSpaces(e) == e.name \o <<"_">> \o e.employeeId

\* mutant of FileName: the name carries the number of the run
FileNameCounted(e) ==
  ReplaceSpaces(e.name) \o <<"_">> \o e.employeeId
    \o (IF started > 1 THEN <<"_", "2">> ELSE <<>>)

\* `${employee.name.replace(/\s+/g, '_')}_${employee.employeeId}`
FileName(e) == ReplaceSpaces(e.name) \o <<"_">> \o e.employeeId

SideChars(side) ==
  IF side = "front" THEN <<"f","r","o","n","t">> ELSE <<"b","a","c","k">>

\* mutant of PngName: the off-screen pipeline leaves the side out of the name
PngNameByPipeline(fileName, side) ==
  IF pipeline = "offscreen" THEN fileName \o <<".","p","n","g">>
  ELSE fileName \o <<"_">> \o SideChars(side) \o <<".","p","n","g">>

\* `${fileName}_${side}.png`
PngName(fileName, side) ==
  fileName \o <<"_">> \o SideChars(side) \o <<".","p","n","g">>

\* `${fileName}.pdf`
PdfName(fileName) == fileName \o <<".","p","d","f">>

\* `TOMO_Academy_All_ID_Cards.pdf`
CombinedName ==
  <<"T","O","M","O","_","A","c","a","d","e","m","y","_","A","l","l","_",
    "I","D","_","C","a","r","d","s",".","p","d","f">>

(* ------------------------------- jsPDF -------------------------------- *)

\* a page of the document format [85.6, 53.98], with the images drawn on it
BlankPage == [w |-> PageW, h |-> PageH, imgs |-> <<>>]

\* new jsPDF({orientation: 'landscape', unit: 'mm', format: [85.6, 53.98]}):
\* a new document already holds its first page
NewPdf == <<BlankPage>>

\* pdf.addPage(): appends a page, which becomes the current page
AddPage(pdf) == Append(pdf, BlankPage)

\* canvas.toDataURL('image/png') of the canvas captured for (emp, side), as
\* handed to pdf.addImage(data, 'PNG', 0, 0, 85.6, 53.98)
Image(emp, side) == [emp |-> emp, side |-> side, w |-> PageW, h |-> PageH]

\* pdf.addImage(...): draws on the current (last) page
AddImage(pdf, img) == [pdf EXCEPT ![Len(pdf)].imgs = Append(@, img)]

\* if (!firstPage) pdf.addPage(): the page the next front is drawn on
FrontPage(pdf, firstPage) == IF ~firstPage THEN AddPage(pdf) ELSE pdf

\* mutant of AddCardPages: addPage() before every front, also the first
AddCardPagesNoFirstPage(pdf, firstPage, emp) ==
  AddImage(AddPage(AddImage(AddPage(pdf), Image(emp, "front"))),
           Image(emp, "back"))

\* exportAllCardsAsPDF, loop body after the two captures:
\*   if (!firstPage) pdf.addPage(); addImage(front); addPage(); addImage(back)
AddCardPages(pdf, firstPage, emp) ==
  LET p1 == FrontPage(pdf, firstPage)
      p2 == AddImage(p1, Image(emp, "front"))
  IN  AddImage(AddPage(p2), Image(emp, "back"))

\* mutant of SingleCardPdf: the back image drawn without pdf.addPage()
SingleCardPdfOnePage(emp) ==
  AddImage(AddImage(NewPdf, Image(emp, "front")), Image(emp, "back"))

\* exportSingleCardAsPDF: new jsPDF, addImage(front), addPage(), addImage(back)
SingleCardPdf(emp) ==
  AddImage(AddPage(AddImage(NewPdf, Image(emp, "front"))), Image(emp, "back"))

(* ------------------------------ downloads ----------------------------- *)

\* link.download = `${fileName}_${side}.png`; link.href = canvas.toDataURL(); link.click()
PngFile(e, side) ==
  [kind |-> "png", name |-> PngName(FileName(e), side),
   emp |-> e.id, side |-> side, pages |-> <<>>]

\* pdf.save(name)
PdfFile(name, emp, pdf) ==
  [kind |-> "pdf", name |-> name, emp |-> emp, side |-> "both", pages |-> pdf]

(* ------------------------------- toasts ------------------------------- *)

ToastId(m) ==
  CASE m = "png" -> "export-png"
    [] m = "pdf" -> "export-pdf"
    [] m = "individual" -> "export-individual"

\* the number named in the success message (0: the message names none)
SuccessCount(m) ==
  CASE m = "png" -> Len(employees) * 2
    [] m = "pdf" -> 0
    [] m = "individual" -> Len(employees)

Toast(m, kind, n) == [id |-> ToastId(m), kind |-> kind, n |-> n]

(* -------------------------------- jobs -------------------------------- *)

NoError == [emp |-> "none", side |-> "none", cause |-> "none"]

\* One activation of an export handler: status is the job's state, pc the
\* suspension point the export function waits at, idx/side the employee and
\* side at hand, delay the pending timer, pdf/firstPage the locals of
\* exportAllCardsAsPDF, log the html2canvas calls made so far, err the error
\* that was thrown, logged the catch blocks that passed it to console.error,
\* dlStart/dlEnd the number of downloads before the job and when it ended.
IdleJob ==
  [status |-> "Idle", pc |-> "none", idx |-> 0, side |-> "front", delay |-> 0,
   pdf |-> <<>>, firstPage |-> TRUE, log |-> <<>>, err |-> NoError,
   logged |-> <<>>, dlStart |-> 0, dlEnd |-> 0]

World ==
  [jobs |-> jobs, toasts |-> toasts, downloads |-> downloads,
   containers |-> containers, inFlight |-> inFlight, isExporting |-> isExporting]

Apply(w) ==
  /\ jobs' = w.jobs
  /\ toasts' = w.toasts
  /\ downloads' = w.downloads
  /\ containers' = w.containers
  /\ inFlight' = w.inFlight
  /\ isExporting' = w.isExporting

Current(w, m) == employees[w.jobs[m].idx]

(* --------------------------- export handlers -------------------------- *)

\* mutant of Disabled: the menu stays enabled while a job runs
NeverDisabled == FALSE

\* disabled={isExporting} on the trigger button and on the three menu items
Disabled == isExporting

\* mutant of Rendered: the menu is rendered for an empty list too
AlwaysRendered == TRUE

\* if (employees.length === 0) return null: nothing to click
Rendered == Len(employees) # 0

\* mutant of HandlerFinally: isExporting is not cleared
HandlerFinallyKeepsFlag(w, m) ==
  [w EXCEPT !.jobs[m].pc = "none", !.jobs[m].delay = 0,
            !.jobs[m].dlEnd = Len(w.downloads)]

\* finally { setIsExporting(false) }
HandlerFinally(w, m) ==
  [w EXCEPT !.isExporting = FALSE, !.jobs[m].pc = "none", !.jobs[m].delay = 0,
            !.jobs[m].dlEnd = Len(w.downloads)]

\* the export call resolved: toast.success(..., {id}), then finally
HandlerSuccess(w, m) ==
  HandlerFinally(
    [w EXCEPT !.toasts = Append(@, Toast(m, "success", SuccessCount(m))),
              !.jobs[m].status = "Completed"], m)

\* mutant of HandlerCatch: the catch issues no notification
HandlerCatchSilent(w, m) ==
  HandlerFinally([w EXCEPT !.jobs[m].logged = Append(@, "handler"),
                           !.jobs[m].status = "Failed"], m)

\* mutant of HandlerCatch: the files of the failed job are taken back
HandlerCatchRollsBack(w, m) ==
  HandlerFinally(
    [w EXCEPT !.toasts = Append(@, Toast(m, "error", 0)),
              !.downloads = SubSeq(@, 1, w.jobs[m].dlStart),
              !.jobs[m].logged = Append(@, "handler"),
              !.jobs[m].status = "Failed"], m)

\* the export call rejected:
\*   catch (error) { toast.error(..., {id}); console.error(error); }, finally
HandlerCatch(w, m) ==
  HandlerFinally(
    [w EXCEPT !.toasts = Append(@, Toast(m, "error", 0)),
              !.jobs[m].logged = Append(@, "handler"),
              !.jobs[m].status = "Failed"], m)

(* ---------------------- catch blocks of the exports ------------------- *)

\* mutant of BatchCatch: the catch logs the error and does not rethrow it
BatchCatchSwallows(w, m) ==
  HandlerSuccess([w EXCEPT !.jobs[m].logged = Append(@, "batch")], m)

\* exportAllCardsAsPNG / exportAllCardsAsPDF / exportIndividualPDFs:
\*   catch (error) { console.error(...); throw error; }
BatchCatch(w, m) ==
  HandlerCatch([w EXCEPT !.jobs[m].logged = Append(@, "batch")], m)

\* mutant of SingleCatch: the catch logs the error and does not rethrow it,
\* and the export call resolves
SingleCatchSwallows(w, m) ==
  HandlerSuccess([w EXCEPT !.jobs[m].logged = Append(@, "single")], m)

\* exportSingleCardAsPNG / exportSingleCardAsPDF:
\*   catch (error) { console.error(...); throw error; }
\* (exportAllCardsAsPDF captures inline: its errors reach BatchCatch directly)
SingleCatch(w, m) ==
  BatchCatch([w EXCEPT !.jobs[m].logged = Append(@, "single")], m)

\* an await threw: the error object, then the enclosing catch blocks
Throw(w, m, cause) ==
  LET j  == w.jobs[m]
      w1 == [w EXCEPT !.jobs[m].err =
                [emp |-> Current(w, m).id, side |-> j.side, cause |-> cause]]
  IN  IF m = "pdf" THEN BatchCatch(w1, m) ELSE SingleCatch(w1, m)

(* ------------------------------ capturing ----------------------------- *)

\* html2canvas(target, {scale: 3, ...}) is called: a capture is in flight
Html2canvas(w, m) ==
  [w EXCEPT !.inFlight = @ + 1,
            !.jobs[m].pc = "capture",
            !.jobs[m].delay = 0,
            !.jobs[m].log = Append(@, [emp |-> Current(w, m).id,
                                       side |-> w.jobs[m].side])]

\* mutant of RenderAndCaptureMount: the capture is taken without the settle
\* delay
RenderAndCaptureMountNoSettle(w, m) ==
  Html2canvas([w EXCEPT !.containers = @ + 1], m)

\* renderAndCapture up to its first await: the container is appended to
\* document.body, the card rendered into it, and the settle timer started
RenderAndCaptureMount(w, m) ==
  [w EXCEPT !.containers = @ + 1,
            !.jobs[m].pc = "settle",
            !.jobs[m].delay = SettleMs]

\* renderAndCapture after html2canvas resolved:
\*   root.unmount(); document.body.removeChild(container)
RenderAndCaptureCleanUp(w) == [w EXCEPT !.containers = @ - 1]

\* mutant of BeginCapture: the other side is captured
BeginCaptureOtherSide(w, m, side) ==
  LET w1 == [w EXCEPT !.jobs[m].side = IF side = "front" THEN "back" ELSE "front"]
  IN  IF pipeline = "offscreen" THEN RenderAndCaptureMount(w1, m)
      ELSE Html2canvas(w1, m)

\* the capture of side `side` of the current employee begins
BeginCapture(w, m, side) ==
  LET w1 == [w EXCEPT !.jobs[m].side = side]
  IN  IF pipeline = "offscreen" THEN RenderAndCaptureMount(w1, m)
      ELSE Html2canvas(w1, m)

\* await new Promise(resolve => setTimeout(resolve, ms))
Pace(w, m, ms) == [w EXCEPT !.jobs[m].pc = "pace", !.jobs[m].delay = ms]

\* mutant of Found: only the front element is tested
FoundFront(e) == e.id \in domFront

\* document.querySelector(`[data-card-id="${id}"][data-side="front"]`) and
\* ...[data-side="back"]: if (frontCard && backCard)
Found(e) == e.id \in domFront /\ e.id \in domBack

(* ---------------------------- export loops ---------------------------- *)

\* what pdf.save of the combined document can do: write the file, or throw
SaveOutcomes(m) == IF m = "pdf" THEN {"ok", "saveThrows"} ELSE {"ok"}

\* the error thrown by pdf.save of the combined document
SaveError == [emp |-> "all", side |-> "both", cause |-> "save"]

\* the loop is over: exportAllCardsAsPDF saves the combined document, inside
\* its try; the export call resolves and the handler goes on after its
\* await, or the save throws and the catch blocks are passed
Finish(w, m, save) ==
  IF m = "pdf" /\ save = "saveThrows"
  THEN BatchCatch([w EXCEPT !.jobs[m].err = SaveError], m)
  ELSE LET w1 == IF m = "pdf"
                 THEN [w EXCEPT !.downloads =
                          Append(@, PdfFile(CombinedName, "all", w.jobs[m].pdf))]
                 ELSE w
       IN  HandlerSuccess(w1, m)

\* for (const employee of employees) from the i-th employee on, up to the
\* next await: the DOM pipeline goes past an employee whose front or back
\* element is not found, the off-screen pipeline takes every employee
RECURSIVE Loop(_, _, _, _)
Loop(w, m, i, save) ==
  IF i > Len(employees) THEN Finish(w, m, save)
  ELSE IF pipeline = "dom" /\ ~Found(employees[i]) THEN Loop(w, m, i + 1, save)
  ELSE BeginCapture([w EXCEPT !.jobs[m].idx = i], m, "front")

\* mutant of AfterCapturePNG: no delay between the front and the back
AfterCapturePNGNoSideDelay(w, m, outcome) ==
  IF outcome = "encodeThrows" THEN Throw(w, m, "encode")
  ELSE LET side == w.jobs[m].side
           w1 == [w EXCEPT !.downloads = Append(@, PngFile(Current(w, m), side))]
       IN  IF side = "front" THEN BeginCapture(w1, m, "back")
           ELSE Pace(w1, m, PngEmployeeDelayMs)

\* exportSingleCardAsPNG after its capture: the download is triggered; then
\* exportAllCardsAsPNG waits 100 ms after a front and 200 ms after a back
AfterCapturePNG(w, m, outcome) ==
  IF outcome = "encodeThrows" THEN Throw(w, m, "encode")
  ELSE LET side == w.jobs[m].side
           w1 == [w EXCEPT !.downloads = Append(@, PngFile(Current(w, m), side))]
       IN  Pace(w1, m, IF side = "front" THEN SideDelayMs ELSE PngEmployeeDelayMs)

\* mutant of AfterCapturesPDF: the document is saved after every employee
AfterCapturesPDFSavesEach(w, m, outcome) ==
  IF outcome = "encodeFrontThrows"
  THEN Throw([w EXCEPT !.jobs[m].pdf = FrontPage(@, w.jobs[m].firstPage),
                       !.jobs[m].firstPage = FALSE], m, "encode")
  ELSE IF outcome = "encodeThrows"
  THEN Throw([w EXCEPT !.jobs[m].pdf =
                 AddPage(AddImage(FrontPage(@, w.jobs[m].firstPage),
                                  Image(Current(w, m).id, "front"))),
                       !.jobs[m].firstPage = FALSE], m, "encode")
  ELSE Pace([w EXCEPT !.jobs[m].pdf =
                 AddCardPages(@, w.jobs[m].firstPage, Current(w, m).id),
                      !.jobs[m].firstPage = FALSE,
                      !.downloads = Append(@, PdfFile(CombinedName, "all",
                         AddCardPages(w.jobs[m].pdf, w.jobs[m].firstPage,
                                      Current(w, m).id)))],
            m, PdfEmployeeDelayMs)

\* exportAllCardsAsPDF after the back capture: the employee's two pages are
\* added to the combined document, then the 100 ms delay. When the front
\* canvas cannot be encoded the document has already got the page for it
\* (if (!firstPage) pdf.addPage(); firstPage = false); when the back canvas
\* cannot be encoded it holds the front image and the blank page for the back
AfterCapturesPDF(w, m, outcome) ==
  IF outcome = "encodeFrontThrows"
  THEN Throw([w EXCEPT !.jobs[m].pdf = FrontPage(@, w.jobs[m].firstPage),
                       !.jobs[m].firstPage = FALSE], m, "encode")
  ELSE IF outcome = "encodeThrows"
  THEN Throw([w EXCEPT !.jobs[m].pdf =
                 AddPage(AddImage(FrontPage(@, w.jobs[m].firstPage),
                                  Image(Current(w, m).id, "front"))),
                       !.jobs[m].firstPage = FALSE], m, "encode")
  ELSE Pace([w EXCEPT !.jobs[m].pdf =
                 AddCardPages(@, w.jobs[m].firstPage, Current(w, m).id),
                      !.jobs[m].firstPage = FALSE],
            m, PdfEmployeeDelayMs)

\* exportSingleCardAsPDF after the back capture: a new document of two pages
\* is saved; then exportIndividualPDFs waits 300 ms
AfterCapturesIndividual(w, m, outcome) ==
  IF outcome = "encodeThrows" THEN Throw(w, m, "encode")
  ELSE LET e == Current(w, m)
       IN  Pace([w EXCEPT !.downloads =
                    Append(@, PdfFile(PdfName(FileName(e)), e.id, SingleCardPdf(e.id)))],
                m, IndividualDelayMs)

\* mutant of AfterCapture: a capture that threw is attempted a second time
AfterCaptureRetries(w, m, outcome) ==
  LET w1 == [w EXCEPT !.inFlight = @ - 1]
      w2 == IF pipeline = "offscreen" THEN RenderAndCaptureCleanUp(w1) ELSE w1
      side == w.jobs[m].side
      log == w.jobs[m].log
      first == Cardinality({i \in 1..Len(log) : log[i] = log[Len(log)]}) = 1
  IN  IF outcome = "captureThrows" /\ first THEN BeginCapture(w2, m, side)
      ELSE IF outcome = "captureThrows" THEN Throw(w1, m, "capture")
      ELSE IF m = "png" THEN AfterCapturePNG(w2, m, outcome)
      ELSE IF side = "front" THEN BeginCapture(w2, m, "back")
      ELSE IF m = "pdf" THEN AfterCapturesPDF(w2, m, outcome)
      ELSE AfterCapturesIndividual(w2, m, outcome)

\* the html2canvas promise settles and the export runs on to its next await
AfterCapture(w, m, outcome) ==
  LET w1 == [w EXCEPT !.inFlight = @ - 1]
      w2 == IF pipeline = "offscreen" THEN RenderAndCaptureCleanUp(w1) ELSE w1
      side == w.jobs[m].side
  IN  IF outcome = "captureThrows" THEN Throw(w1, m, "capture")
      ELSE IF m = "png" THEN AfterCapturePNG(w2, m, outcome)
      ELSE IF side = "front" THEN BeginCapture(w2, m, "back")
      ELSE IF m = "pdf" THEN AfterCapturesPDF(w2, m, outcome)
      ELSE AfterCapturesIndividual(w2, m, outcome)

\* what can happen to a capture: html2canvas resolves and the code after it
\* runs through, html2canvas rejects, or html2canvas resolves and the encoding
\* that follows it throws: toDataURL and the download of a PNG; toDataURL,
\* addImage and save of an individual PDF; in combined-PDF mode toDataURL or
\* addImage of the front canvas (encodeFrontThrows) or of the back canvas
Outcomes(m, side) ==
  IF m = "pdf" /\ side = "back"
  THEN {"ok", "captureThrows", "encodeFrontThrows", "encodeThrows"}
  ELSE IF m = "png" \/ side = "back"
  THEN {"ok", "captureThrows", "encodeThrows"}
  ELSE {"ok", "captureThrows"}

\* mutant of AfterPace: the loop moves on after the delay that follows a front
AfterPaceNextEmployee(w, m, save) == Loop(w, m, w.jobs[m].idx + 1, save)

\* a pacing delay is over
AfterPace(w, m, save) ==
  IF m = "png" /\ w.jobs[m].side = "front"
  THEN BeginCapture(w, m, "back")
  ELSE Loop(w, m, w.jobs[m].idx + 1, save)

\* mutant of HandlerStart: the handler does not set isExporting
HandlerStartNoFlag(w, m, save) ==
  Loop([w EXCEPT !.toasts = Append(@, Toast(m, "loading", 0)),
                 !.jobs[m] = [IdleJob EXCEPT
                                !.status = "Running",
                                !.pdf = IF m = "pdf" THEN NewPdf ELSE <<>>,
                                !.dlStart = Len(w.downloads)]],
       m, 1, save)

\* the handler up to the export's first await: setIsExporting(true),
\* toast.loading(..., {id}), then the export call
HandlerStart(w, m, save) ==
  Loop([w EXCEPT !.isExporting = TRUE,
                 !.toasts = Append(@, Toast(m, "loading", 0)),
                 !.jobs[m] = [IdleJob EXCEPT
                                !.status = "Running",
                                !.pdf = IF m = "pdf" THEN NewPdf ELSE <<>>,
                                !.dlStart = Len(w.downloads)]],
       m, 1, save)

(* ------------------------------- actions ------------------------------ *)

\* no card is mounted and no single export is called in a batch behaviour
NoCard == [component |-> "none"]
NoCall == [pc |-> "none"]

Static == UNCHANGED <<employees, pipeline, domFront, domBack, card, call>>

\* mutant of Click: a menu item can be clicked while a job runs
ClickWhileExporting(m) ==
  /\ Rendered
  /\ started < MaxJobs
  /\ started' = started + 1
  /\ \E save \in SaveOutcomes(m) : Apply(HandlerStart(World, m, save))
  /\ Static

\* a menu item is clicked: handleExportPNG / handleExportCombinedPDF /
\* handleExportIndividualPDFs
Click(m) ==
  /\ Rendered
  /\ ~Disabled
  /\ started < MaxJobs
  /\ started' = started + 1
  /\ \E save \in SaveOutcomes(m) : Apply(HandlerStart(World, m, save))
  /\ Static

\* the 100 ms settle timer of renderAndCapture fires
SettleElapsed(m) ==
  /\ jobs[m].pc = "settle"
  /\ Apply(Html2canvas(World, m))
  /\ UNCHANGED started
  /\ Static

\* the html2canvas promise settles
CaptureSettled(m) ==
  /\ jobs[m].pc = "capture"
  /\ \E outcome \in Outcomes(m, jobs[m].side) :
        Apply(AfterCapture(World, m, outcome))
  /\ UNCHANGED started
  /\ Static

\* a pacing timer fires
PaceElapsed(m) ==
  /\ jobs[m].pc = "pace"
  /\ \E save \in SaveOutcomes(m) : Apply(AfterPace(World, m, save))
  /\ UNCHANGED started
  /\ Static

Init ==
  /\ employees \in EmployeeLists
  /\ pipeline \in Pipelines
  /\ domFront \in SUBSET Ids(employees)
  /\ domBack \in SUBSET Ids(employees)
  /\ pipeline = "offscreen" => domFront = {} /\ domBack = {}
  /\ isExporting = FALSE
  /\ jobs = [m \in Modes |-> IdleJob]
  /\ toasts = <<>>
  /\ downloads = <<>>
  /\ containers = 0
  /\ inFlight = 0
  /\ started = 0
  /\ card = NoCard
  /\ call = NoCall

Next ==
  \E m \in Modes :
     \/ Click(m)
     \/ SettleElapsed(m)
     \/ CaptureSettled(m)
     \/ PaceElapsed(m)

Spec == Init /\ [][Next]_vars

(* ===================== properties of the export ======================= *)

\* the files the latest activation of handler m has triggered
JobDownloads(m) ==
  SubSeq(downloads, jobs[m].dlStart + 1,
         IF jobs[m].status = "Running" THEN Len(downloads) ELSE jobs[m].dlEnd)

\* the notifications issued under the toast id of handler m, in order
ToastsOf(m) == SelectSeq(toasts, LAMBDA t : t.id = ToastId(m))

\* employee e has both card faces in the document
HasBothFaces(e) == e.id \in domFront /\ e.id \in domBack

\* the employees whose cards the linked pipeline can capture, in input
\* order: all of them off-screen, those with both elements in the DOM
Targets ==
  IF pipeline = "offscreen" THEN employees
  ELSE SelectSeq(employees, HasBothFaces)

\* ds is front, back, front, back, ... of the employees es, in their order
IsFrontBackOf(ds, es) ==
  /\ Len(ds) = 2 * Len(es)
  /\ \A k \in 1..Len(es) :
        /\ ds[2 * k - 1].emp = es[k].id /\ ds[2 * k - 1].side = "front"
        /\ ds[2 * k].emp = es[k].id /\ ds[2 * k].side = "back"

\* C1 as first stated: every successful PNG export of N employees triggers
\* exactly 2N downloads, front(1), back(1), ..., front(N), back(N)
C1_AllEmployeesDownloaded ==
  jobs["png"].status = "Completed" =>
     /\ \A i \in 1..Len(JobDownloads("png")) : JobDownloads("png")[i].kind = "png"
     /\ IsFrontBackOf(JobDownloads("png"), employees)

\* C1 amended: every successful PNG export triggers exactly 2K downloads,
\* front then back of each of the K employees whose cards the pipeline can
\* capture, in input order (K = N off-screen; the DOM pipeline leaves out the
\* employees lacking a front or back element)
C1_TargetsDownloaded ==
  jobs["png"].status = "Completed" =>
     /\ \A i \in 1..Len(JobDownloads("png")) : JobDownloads("png")[i].kind = "png"
     /\ IsFrontBackOf(JobDownloads("png"), Targets)

\* a PNG export of two employees completed with four downloads
C1_Witness ==
  /\ jobs["png"].status = "Completed"
  /\ Len(employees) = 2
  /\ Len(JobDownloads("png")) = 4

\* pages is one page per face, front then back per employee of es, every
\* page of the card format and holding that one image
IsCardPagesOf(pages, es) ==
  /\ Len(pages) = 2 * Len(es)
  /\ \A i \in 1..Len(pages) : pages[i].w = PageW /\ pages[i].h = PageH
  /\ \A k \in 1..Len(es) :
        /\ pages[2 * k - 1].imgs = << [emp |-> es[k].id, side |-> "front",
                                       w |-> PageW, h |-> PageH] >>
        /\ pages[2 * k].imgs = << [emp |-> es[k].id, side |-> "back",
                                   w |-> PageW, h |-> PageH] >>

\* C2 as first stated: every successful combined-PDF export of N employees
\* saves a document of exactly 2N pages, front and back per employee
C2_AllEmployeesPaged ==
  jobs["pdf"].status = "Completed" =>
     /\ Len(JobDownloads("pdf")) = 1
     /\ IsCardPagesOf(JobDownloads("pdf")[1].pages, employees)

\* C2 amended: every successful combined-PDF export saves one document; with
\* K >= 1 capturable employees it has exactly 2K pages of 85.6 x 53.98 mm,
\* page 2k-1 the front and page 2k the back of the k-th of them; with K = 0
\* (DOM pipeline, no employee with both elements) it is one blank page
C2_TargetsPaged ==
  jobs["pdf"].status = "Completed" =>
     /\ Len(JobDownloads("pdf")) = 1
     /\ JobDownloads("pdf")[1].kind = "pdf"
     /\ JobDownloads("pdf")[1].name = CombinedName
     /\ IF Targets = <<>>
        THEN JobDownloads("pdf")[1].pages =
                << [w |-> PageW, h |-> PageH, imgs |-> <<>>] >>
        ELSE IsCardPagesOf(JobDownloads("pdf")[1].pages, Targets)

\* a combined PDF of two employees was saved with four pages
C2_Witness ==
  /\ jobs["pdf"].status = "Completed"
  /\ Len(employees) = 2
  /\ Len(JobDownloads("pdf")) = 1
  /\ Len(JobDownloads("pdf")[1].pages) = 4

\* no renderAndCapture call is pending
NoCaptureCallPending == \A m \in Modes : jobs[m].pc \notin {"settle", "capture"}

\* C3: whenever every renderAndCapture call has settled, also by throwing,
\* no temporary container is attached to document.body
C3_ContainerRemoved == NoCaptureCallPending => containers = 0

\* k-th employee of the list, by id (0 if none)
IndexOf(id) ==
  IF \E i \in 1..Len(employees) : employees[i].id = id
  THEN CHOOSE i \in 1..Len(employees) : employees[i].id = id
  ELSE 0

\* the job has failed at one of its employees: a capture was rejected or the
\* encoding after it threw (the other failure is the save of the combined
\* document, after the last employee)
EmployeeFailure(m) == jobs[m].err.cause \in {"capture", "encode"}

\* C4: once the capture or export of employee k has thrown in a batch job,
\* the job is Failed and waits for nothing more, its last capture is the one
\* of employee k that threw, every file it triggered belongs to an employee
\* before k (or is k's front PNG when k's back failed), and the combined
\* PDF is not saved
C4_FailureAborts ==
  \A m \in Modes :
     EmployeeFailure(m) =>
        LET k == jobs[m].idx
            ds == JobDownloads(m)
            log == jobs[m].log
        IN  /\ jobs[m].status = "Failed"
            /\ jobs[m].pc = "none"
            /\ k \in 1..Len(employees)
            /\ jobs[m].err.emp = employees[k].id
            /\ log # <<>>
            /\ log[Len(log)] = [emp |-> employees[k].id, side |-> jobs[m].err.side]
            /\ \A i \in 1..Len(log) : IndexOf(log[i].emp) <= k
            /\ \A i \in 1..Len(ds) :
                  \/ IndexOf(ds[i].emp) \in 1..(k - 1)
                  \/ /\ m = "png" /\ jobs[m].err.side = "back"
                     /\ ds[i].emp = employees[k].id /\ ds[i].side = "front"
            /\ m = "pdf" => ds = <<>>
            /\ ToastsOf(m) # <<>>
            /\ ToastsOf(m)[Len(ToastsOf(m))].kind = "error"

\* a PNG job failed at the first of two employees, after that employee's front
C4_Witness ==
  /\ jobs["png"].status = "Failed"
  /\ Len(employees) = 2
  /\ jobs["png"].idx = 1
  /\ jobs["png"].err.side = "back"
  /\ Len(JobDownloads("png")) = 1

\* C5: at most one capture (html2canvas call) is in flight at any time, and
\* it belongs to the one job waiting for it
C5_OneCaptureAtATime ==
  /\ inFlight <= 1
  /\ inFlight = Cardinality({m \in Modes : jobs[m].pc = "capture"})

\* a capture is in flight after earlier captures of the same job have settled
C5_Witness ==
  /\ inFlight = 1
  /\ \E m \in Modes : jobs[m].pc = "capture" /\ Len(jobs[m].log) >= 3

\* C6: under each toast id the notifications alternate in-progress,
\* terminal, in-progress, terminal, ...: every in-progress notification of a
\* settled export is followed by exactly one terminal notification, success
\* for a Completed job and failure for a Failed one, and only a Running job
\* has its in-progress notification still open
C6_OneTerminalToast ==
  \A m \in Modes :
     LET ts == ToastsOf(m)
     IN  /\ \A i \in 1..Len(ts) :
               IF i % 2 = 1 THEN ts[i].kind = "loading"
               ELSE ts[i].kind \in {"success", "error"}
         /\ jobs[m].status = "Idle" <=> ts = <<>>
         /\ jobs[m].status = "Running" <=> Len(ts) % 2 = 1
         /\ jobs[m].status = "Completed" =>
               Len(ts) % 2 = 0 /\ ts # <<>> /\ ts[Len(ts)].kind = "success"
         /\ jobs[m].status = "Failed" =>
               Len(ts) % 2 = 0 /\ ts # <<>> /\ ts[Len(ts)].kind = "error"

\* a handler has run twice: its first job failed, its second completed
C6_Witness ==
  \E m \in Modes :
     /\ jobs[m].status = "Completed"
     /\ Len(ToastsOf(m)) = 4
     /\ ToastsOf(m)[2].kind = "error"

\* C7: in the DOM pipeline an employee lacking a front or back element is
\* neither captured nor exported and raises no error: a job fails only by a
\* throw at an employee that has both elements or, past the last employee,
\* by the save of the combined document, and a job that completes has
\* captured exactly the employees with both elements, front then back, in
\* input order
C7_MissingCardSkipped ==
  pipeline = "dom" =>
     \A m \in Modes :
        /\ \A i \in 1..Len(jobs[m].log) :
              \E e \in Ids(Targets) : jobs[m].log[i].emp = e
        /\ \A i \in 1..Len(JobDownloads(m)) :
              JobDownloads(m)[i].emp \in Ids(Targets) \cup {"all"}
        /\ jobs[m].status = "Failed" =>
              \/ EmployeeFailure(m) /\ jobs[m].err.emp \in Ids(Targets)
              \/ m = "pdf" /\ jobs[m].err = SaveError
        /\ jobs[m].status = "Completed" => IsFrontBackOf(jobs[m].log, Targets)
        /\ (jobs[m].status = "Running" /\ jobs[m].err.cause = "none") =>
              \A i \in 1..(jobs[m].idx - 1) :
                 HasBothFaces(employees[i]) =>
                    \E j \in 1..Len(jobs[m].log) :
                       jobs[m].log[j].emp = employees[i].id

\* a DOM-pipeline job completed although its first employee has no back
\* element, and it captured the second employee
C7_Witness ==
  /\ pipeline = "dom"
  /\ Len(employees) = 2
  /\ employees[1].id \in domFront /\ employees[1].id \notin domBack
  /\ \E m \in Modes : jobs[m].status = "Completed" /\ Len(jobs[m].log) = 2

\* number of PNG files among ds
RECURSIVE PngCount(_)
PngCount(ds) ==
  IF ds = <<>> THEN 0
  ELSE (IF Head(ds).kind = "png" THEN 1 ELSE 0) + PngCount(Tail(ds))

\* C8: when a PNG job has completed, the count its success notification
\* names is 2 x the number of employees and is the number of PNG files the
\* job produced
C8_CountIsProduced ==
  jobs["png"].status = "Completed" =>
     LET ts == ToastsOf("png")
     IN  /\ ts[Len(ts)].n = 2 * Len(employees)
         /\ ts[Len(ts)].n = PngCount(JobDownloads("png"))

\* s is an initial segment of t
IsPrefix(s, t) == Len(s) <= Len(t) /\ \A i \in 1..Len(s) : s[i] = t[i]

\* C9: no step shortens or rewrites the sequence of triggered downloads, and
\* the step in which a job fails keeps every file the job had triggered while
\* issuing the failure notification
C9_NoRollback ==
  [][ /\ IsPrefix(downloads, downloads')
      /\ \A m \in Modes :
            (jobs[m].status = "Running" /\ jobs'[m].status = "Failed") =>
               /\ downloads' = downloads
               /\ toasts' = Append(toasts, [id |-> ToastId(m), kind |-> "error", n |-> 0])
    ]_vars

\* a PNG job failed at its second employee with the first employee's two
\* files downloaded
C9_Witness ==
  /\ jobs["png"].status = "Failed"
  /\ jobs["png"].idx = 2
  /\ Len(JobDownloads("png")) >= 2
  /\ toasts[Len(toasts)].kind = "error"

\* C10: every file saved in individual-PDF mode is a document of exactly two
\* pages, the front then the back of one employee of the list, saved under
\* that employee's file name; a completed job has saved one such document per
\* capturable employee, in input order
C10_TwoPagesPerEmployee ==
  LET ds == JobDownloads("individual")
  IN  /\ \A i \in 1..Len(ds) :
            /\ ds[i].kind = "pdf"
            /\ \E k \in 1..Len(employees) :
                  /\ ds[i].name = PdfName(FileName(employees[k]))
                  /\ IsCardPagesOf(ds[i].pages, <<employees[k]>>)
      /\ jobs["individual"].status = "Completed" =>
            /\ Len(ds) = Len(Targets)
            /\ \A k \in 1..Len(ds) :
                  /\ ds[k].name = PdfName(FileName(Targets[k]))
                  /\ IsCardPagesOf(ds[k].pages, <<Targets[k]>>)

\* an individual-PDF job of two employees completed with two documents
C10_Witness ==
  /\ jobs["individual"].status = "Completed"
  /\ Len(employees) = 2
  /\ Len(JobDownloads("individual")) = 2

\* C11: with an empty employee list the export control is not rendered: no
\* handler has run, so no job has started, no notification was issued,
\* nothing was downloaded and isExporting is still false
C11_EmptyListNoJob ==
  Len(employees) = 0 =>
     /\ started = 0
     /\ ~Rendered
     /\ \A m \in Modes : jobs[m].status = "Idle" /\ ~ENABLED Click(m)
     /\ toasts = <<>>
     /\ downloads = <<>>
     /\ ~isExporting

\* the button was given an empty list and the trigger is enabled (not
\* exporting), yet no click on a menu item is possible
C11_Witness ==
  /\ Len(employees) = 0
  /\ ~Disabled
  /\ \A m \in Modes : ~ENABLED Click(m)

(* ========================= properties of file names =================== *)

\* the white-space characters: space, tab, line feed, carriage return, form
\* feed, vertical tab, and the Unicode spaces and line separators
WhiteSpace ==
  {" ", "\t", "\n", "\r", "\f", "U+000B", "U+2028", "U+2029", "U+FEFF"}
    \cup {"U+00A0", "U+1680", "U+202F", "U+205F", "U+3000"}
    \cup {"U+2000", "U+2001", "U+2002", "U+2003", "U+2004", "U+2005",
          "U+2006", "U+2007", "U+2008", "U+2009", "U+200A"}

\* s with every maximal run of white space replaced by one underscore: a
\* character is kept unless it is white space that follows white space
RunsUnderscored(s) ==
  LET F[i \in 0..Len(s)] ==
        IF i = 0 THEN <<>>
        ELSE IF s[i] \notin WhiteSpace THEN Append(F[i - 1], s[i])
        ELSE IF i > 1 /\ s[i - 1] \in WhiteSpace THEN F[i - 1]
        ELSE Append(F[i - 1], "_")
  IN  F[Len(s)]

\* s with each space character replaced by an underscore
SpacesUnderscored(s) == [i \in 1..Len(s) |-> IF s[i] = " " THEN "_" ELSE s[i]]

\* the employee of the list with this id
EmployeeOf(id) == employees[IndexOf(id)]

Ext(d) ==
  IF d.kind = "pdf" THEN <<".","p","d","f">>
  ELSE IF d.side = "front"
       THEN <<"_","f","r","o","n","t",".","p","n","g">>
       ELSE <<"_","b","a","c","k",".","p","n","g">>

\* every file triggered so far is named base(name)_employeeId + suffix for
\* its employee, and the combined PDF TOMO_Academy_All_ID_Cards.pdf
NamedBy(base(_)) ==
  \A i \in 1..Len(downloads) :
     LET d == downloads[i]
     IN  IF d.emp = "all"
         THEN d.kind = "pdf" /\
              d.name = <<"T","O","M","O","_","A","c","a","d","e","m","y","_",
                         "A","l","l","_","I","D","_","C","a","r","d","s",
                         ".","p","d","f">>
         ELSE /\ IndexOf(d.emp) # 0
              /\ d.name = base(EmployeeOf(d.emp).name) \o <<"_">>
                             \o EmployeeOf(d.emp).employeeId \o Ext(d)

AdaLovelace ==
  [id |-> "1", name |-> <<"A","d","a"," ","L","o","v","e","l","a","c","e">>,
   employeeId |-> <<"E","0","0","1">>]

\* name 'Ada Lovelace' with employeeId 'E001' gives Ada_Lovelace_E001_front.png,
\* Ada_Lovelace_E001_back.png and Ada_Lovelace_E001.pdf
AdaExample ==
  /\ PngFile(AdaLovelace, "front").name =
       <<"A","d","a","_","L","o","v","e","l","a","c","e","_","E","0","0","1",
         "_","f","r","o","n","t",".","p","n","g">>
  /\ PngFile(AdaLovelace, "back").name =
       <<"A","d","a","_","L","o","v","e","l","a","c","e","_","E","0","0","1",
         "_","b","a","c","k",".","p","n","g">>
  /\ PdfName(FileName(AdaLovelace)) =
       <<"A","d","a","_","L","o","v","e","l","a","c","e","_","E","0","0","1",
         ".","p","d","f">>

\* carriage return, form feed, vertical tab and the no-break space are white
\* space too: 'a\r\f\vb\u00A0c' with employeeId 'E' gives a_b_c_E.pdf
OtherSpacesExample ==
  PdfName(FileName([id |-> "1", employeeId |-> <<"E">>,
                    name |-> <<"a", "\r", "\f", "U+000B", "b", "U+00A0", "c">>]))
    = <<"a", "_", "b", "_", "c", "_", "E", ".", "p", "d", "f">>

\* C12 as first stated: {name} is the name with its spaces replaced by
\* underscores, one underscore per space
C12_SpacesReplaced == AdaExample /\ NamedBy(SpacesUnderscored)

\* C12 amended: {name} is the name with every maximal run of white-space
\* characters (spaces, tabs, line breaks) replaced by one underscore; the
\* PNG files are {name}_{employeeId}_front.png and _back.png, the individual
\* PDF {name}_{employeeId}.pdf, the combined PDF TOMO_Academy_All_ID_Cards.pdf
C12_RunsReplaced ==
  AdaExample /\ OtherSpacesExample /\ NamedBy(RunsUnderscored)

\* the back PNG of the employee whose name holds two spaces in a row, and an
\* individual PDF, have been downloaded
C12_Witness ==
  /\ \E i \in 1..Len(downloads) :
        /\ downloads[i].kind = "png" /\ downloads[i].side = "back"
        /\ downloads[i].emp = Roster[2].id
  /\ \E i \in 1..Len(downloads) :
        downloads[i].kind = "pdf" /\ downloads[i].emp # "all"

(* ====================== cards and single exports ====================== *)
(* A second specification, CardSpec: one card component is mounted for an *)
(* employee whose name is drawn from all short strings, or one direct     *)
(* call of the DOM pipeline's exportSingleCardAsPNG is made.              *)

\* longest employee name drawn
MaxNameLen == 6

NameChars == {"a", "b", " ", "\t"}
Names == UNION { [1..n -> NameChars] : n \in 0..MaxNameLen }

\* String.prototype.toUpperCase, on the characters drawn
ToUpperCase(s) ==
  [i \in 1..Len(s) |-> CASE s[i] = "a" -> "A" [] s[i] = "b" -> "B" [] OTHER -> s[i]]

\* name.split(' '): the pieces between single space characters, empty
\* pieces included
Split(s) ==
  LET F[i \in 0..Len(s)] ==
        IF i = 0 THEN << <<>> >>
        ELSE IF s[i] = " " THEN Append(F[i - 1], <<>>)
        ELSE [F[i - 1] EXCEPT ![Len(F[i - 1])] = Append(@, s[i])]
  IN  F[Len(s)]

\* n[0]: the first character, undefined for the empty string
Undefined == "undefined"
First(n) == IF n = <<>> THEN Undefined ELSE n[1]

\* Array.prototype.join(''): undefined elements give the empty string
RECURSIVE Join(_)
Join(arr) ==
  IF arr = <<>> THEN <<>>
  ELSE (IF Head(arr) = Undefined THEN <<>> ELSE <<Head(arr)>>) \o Join(Tail(arr))

\* s.slice(0, 2)
Slice2(s) == SubSeq(s, 1, Min(2, Len(s)))

\* mutant of Initials: the first letters are not cut to two
InitialsUncut(name) ==
  ToUpperCase(Join([i \in 1..Len(Split(name)) |-> First(Split(name)[i])]))

\* employee.name.split(' ').map(n => n[0]).join('').toUpperCase().slice(0, 2)
Initials(name) ==
  Slice2(ToUpperCase(Join([i \in 1..Len(Split(name)) |-> First(Split(name)[i])])))

\* githubPhotoService.getAvatarProps(employee): src is the photo reference
\* if there is one, fallback the initials of the name
GetAvatarProps(c) ==
  [src |-> c.photo, fallback |-> Initials(c.name)]

\* ExportableIDCard.renderAvatar: the photo if employee.photo is set (an
\* <img> without onError), the initials otherwise
ExportableRenderAvatar(c) ==
  IF c.photo # "none" THEN [kind |-> "img", text |-> <<>>]
  ELSE [kind |-> "initials", text |-> Initials(c.name)]

\* CompactIDCard.renderAvatar: the photo if avatarProps.src && !imageError,
\* the fallback otherwise
CompactRenderAvatar(c) ==
  IF GetAvatarProps(c).src # "none" /\ ~c.imageError
  THEN [kind |-> "img", text |-> <<>>]
  ELSE [kind |-> "initials", text |-> GetAvatarProps(c).fallback]

RenderAvatar(c) ==
  IF c.component = "ExportableIDCard" THEN ExportableRenderAvatar(c)
  ELSE CompactRenderAvatar(c)

\* the elements of the mounted card that carry data-card-id and data-side:
\* the two <Card> faces of the second CompactIDCard definition; the first
\* definition and ExportableIDCard set neither attribute
Faces(c) ==
  IF c.component = "CompactIDCard" /\ c.definition = "second"
  THEN { [cardId |-> c.id, side |-> "front"], [cardId |-> c.id, side |-> "back"] }
  ELSE {}

\* the components: ExportableIDCard, and the two definitions of CompactIDCard
Components ==
  { [component |-> "ExportableIDCard", definition |-> "first"],
    [component |-> "CompactIDCard", definition |-> "first"],
    [component |-> "CompactIDCard", definition |-> "second"] }

\* most files selected on one card's file input
MaxChanges == 2

\* a card before it is mounted: cb is whether the onPhotoUpdate prop is
\* given, picks the number of change events its file input will receive;
\* upload is the position of handlePhotoChange, sent the files passed to
\* onPhotoUpdate, notices the toasts of the handler
CardOf(k, n, ph, cb, picks) ==
  [component |-> k.component, definition |-> k.definition, id |-> "7",
   name |-> n, photo |-> ph, mounted |-> FALSE, imageError |-> FALSE,
   loadFailed |-> FALSE, avatar |-> [kind |-> "none", text |-> <<>>],
   faces |-> {}, onPhotoUpdate |-> cb, picksLeft |-> picks,
   isUploading |-> FALSE, upload |-> "idle", sent |-> <<>>, notices |-> <<>>]

\* cards of every component and name on which no file is selected, and
\* CompactIDCards of one employee on which files are selected
Cards ==
  { CardOf(k, n, ph, FALSE, 0) :
      k \in Components, n \in Names, ph \in {"none", "url"} }
  \cup
  { CardOf(k, Roster[1].name, ph, cb, MaxChanges) :
      k \in { c \in Components : c.component = "CompactIDCard" },
      ph \in {"none", "url"}, cb \in BOOLEAN }

\* the component function runs: useState(false), then the JSX
MountCard ==
  /\ card # NoCard /\ ~card.mounted
  /\ card' = [card EXCEPT !.mounted = TRUE,
                          !.avatar = RenderAvatar(card),
                          !.faces = Faces(card)]
  /\ UNCHANGED call

\* the photo of the mounted card fails to load: the error event of the
\* <img>; CompactIDCard's onError sets imageError and the card renders again
ImageError ==
  /\ card # NoCard /\ card.mounted /\ card.avatar.kind = "img"
  /\ ~card.loadFailed
  /\ card' = IF card.component = "CompactIDCard"
             THEN [card EXCEPT !.loadFailed = TRUE, !.imageError = TRUE,
                     !.avatar = RenderAvatar([card EXCEPT !.imageError = TRUE])]
             ELSE [card EXCEPT !.loadFailed = TRUE]
  /\ UNCHANGED call

\* what the file input hands to handlePhotoChange: no file, a file that
\* validateImage refuses, a file that it accepts
Files == {"none", "invalid", "valid"}

\* githubPhotoService.validateImage(file)
ValidateImage(file) == [valid |-> file = "valid"]

\* mutant of PhotoChangeFinally: isUploading is not cleared
PhotoChangeFinallySkipped(c) == [c EXCEPT !.upload = "idle"]

\* handlePhotoChange: finally { setIsUploading(false) }
PhotoChangeFinally(c) == [c EXCEPT !.isUploading = FALSE, !.upload = "idle"]

\* handlePhotoChange up to its await, for a file that was selected:
\* setIsUploading(true), setImageError(false), the validation, and the call
\* of onPhotoUpdate if the prop is given
PhotoChangeStart(c, file) ==
  LET c1 == [c EXCEPT !.isUploading = TRUE, !.imageError = FALSE,
                      !.loadFailed = FALSE]
      c2 == [c1 EXCEPT !.avatar = RenderAvatar(c1)]
  IN  IF ~ValidateImage(file).valid
      THEN PhotoChangeFinally([c2 EXCEPT !.notices = Append(@, "Invalid Image")])
      ELSE IF c.onPhotoUpdate
      THEN [c2 EXCEPT !.sent = Append(@, file), !.upload = "awaiting"]
      ELSE PhotoChangeFinally(c2)

\* the change event of the file input (disabled while isUploading):
\* handlePhotoChange runs to its return or to its await
PhotoChange ==
  /\ card # NoCard /\ card.mounted /\ card.component = "CompactIDCard"
  /\ ~card.isUploading
  /\ card.picksLeft > 0
  /\ \E file \in Files :
        LET c == [card EXCEPT !.picksLeft = @ - 1]
        IN  card' = IF file = "none" THEN c ELSE PhotoChangeStart(c, file)
  /\ UNCHANGED call

\* the promise of onPhotoUpdate settles: the success toast, or the catch
\* with its failure toast; then finally
UploadSettled ==
  /\ card # NoCard /\ card.mounted /\ card.upload = "awaiting"
  /\ \E outcome \in {"resolved", "rejected"} :
        card' = PhotoChangeFinally(
                  [card EXCEPT !.notices = Append(@,
                     IF outcome = "resolved" THEN "Photo Updated"
                     ELSE "Upload Failed")])
  /\ UNCHANGED call

\* html2canvas(cardElement) of the single export: a null element is rejected
\* by the library; an element may rasterize, fail to rasterize, or give a
\* canvas that toDataURL refuses
ElementOutcomes(target) ==
  IF target = "null" THEN {"captureThrows"}
  ELSE {"ok", "captureThrows", "encodeThrows"}

Calls ==
  { [pc |-> "ready", target |-> t, side |-> s, fileName |-> FileName(Roster[1]),
     attempts |-> 0, result |-> "pending", files |-> <<>>, logged |-> 0] :
    t \in {"null", "element"}, s \in Sides }

\* mutant of ExportSingleCatch: the error is logged and not thrown again
ExportSingleCatchSwallows(c) ==
  [c EXCEPT !.pc = "done", !.logged = @ + 1, !.result = "resolved"]

\* exportSingleCardAsPNG: catch (error) { console.error(...); throw error; }
ExportSingleCatch(c) ==
  [c EXCEPT !.pc = "done", !.logged = @ + 1, !.result = "rejected"]

\* exportSingleCardAsPNG: link.download, link.href, link.click()
ExportSingleDownload(c) ==
  [c EXCEPT !.pc = "done", !.result = "resolved",
            !.files = Append(@, PngName(c.fileName, c.side))]

\* exportSingleCardAsPNG(cardElement, fileName, side) is called and runs to
\* its await of html2canvas
CallExportSingle ==
  /\ call # NoCall /\ call.pc = "ready"
  /\ call' = [call EXCEPT !.pc = "capture", !.attempts = @ + 1]
  /\ UNCHANGED card

\* the html2canvas promise of the single export settles
ExportSingleSettled ==
  /\ call # NoCall /\ call.pc = "capture"
  /\ \E outcome \in ElementOutcomes(call.target) :
        call' = IF outcome = "ok" THEN ExportSingleDownload(call)
                ELSE ExportSingleCatch(call)
  /\ UNCHANGED card

CardInit ==
  /\ employees = <<>>
  /\ pipeline = "dom"
  /\ domFront = {}
  /\ domBack = {}
  /\ isExporting = FALSE
  /\ jobs = [m \in Modes |-> IdleJob]
  /\ toasts = <<>>
  /\ downloads = <<>>
  /\ containers = 0
  /\ inFlight = 0
  /\ started = 0
  /\ \/ card \in Cards /\ call = NoCall
     \/ card = NoCard /\ call \in Calls

CardNext ==
  /\ \/ MountCard
     \/ ImageError
     \/ PhotoChange
     \/ UploadSettled
     \/ CallExportSingle
     \/ ExportSingleSettled
  /\ UNCHANGED <<employees, pipeline, domFront, domBack, isExporting, jobs,
                 toasts, downloads, containers, inFlight, started>>

CardSpec == CardInit /\ [][CardNext]_vars

(* ---------------------------- initials -------------------------------- *)

\* the positions of s where a token starts, tokens being the maximal runs of
\* characters outside seps
TokenStarts(s, seps) ==
  { i \in 1..Len(s) : s[i] \notin seps /\ (i = 1 \/ s[i - 1] \in seps) }

\* the uppercase first letters of the first two tokens of s
TwoInitials(s, seps) ==
  LET I == TokenStarts(s, seps)
      a == CHOOSE i \in I : \A j \in I : i <= j
      b == CHOOSE i \in I \ {a} : \A j \in I \ {a} : i <= j
  IN  IF I = {} THEN <<>>
      ELSE IF I = {a} THEN ToUpperCase(<<s[a]>>)
      ELSE ToUpperCase(<<s[a], s[b]>>)

\* 'Ada Lovelace' gives 'AL', 'Ada' gives 'A'
InitialsExample ==
  /\ Initials(AdaLovelace.name) = <<"A", "L">>
  /\ Initials(<<"A", "d", "a">>) = <<"A">>

ShowsInitials(seps) ==
  (card # NoCard /\ card.mounted /\ card.component = "ExportableIDCard"
     /\ card.photo = "none")
  => /\ card.avatar.kind = "initials"
     /\ card.avatar.text = TwoInitials(card.name, seps)

\* C13 as stated: an export card without photo shows the uppercase first
\* letters of the first two whitespace-separated tokens of the name
C13_WhitespaceTokens == InitialsExample /\ ShowsInitials(WhiteSpace)

\* C13: an export card without photo shows the uppercase first letters of
\* the first two tokens of the name, the tokens being separated by the space
\* character only (a tab does not separate tokens)
C13_SpaceTokens == InitialsExample /\ ShowsInitials({" "})

C13_Witness ==
  /\ card # NoCard /\ card.mounted /\ card.component = "ExportableIDCard"
  /\ card.photo = "none"
  /\ card.name = <<"a", "\t", "b", " ", " ", "b">>
  /\ card.avatar.text = <<"A", "B">>

(* ------------------------- broken photographs ------------------------- *)

\* C14: a mounted card whose photo reference is present and whose photo has
\* failed to load shows the initials of the name, not the broken image
C14_BrokenPhotoShowsInitials ==
  (card # NoCard /\ card.mounted /\ card.photo # "none" /\ card.loadFailed)
  => /\ card.avatar.kind = "initials"
     /\ card.avatar.text = TwoInitials(card.name, {" "})

(* ------------------------ failures and retries ------------------------ *)

\* the catch blocks an error thrown in mode m passes, innermost first
CatchChain(m) ==
  IF m = "pdf" THEN <<"batch", "handler">> ELSE <<"single", "batch", "handler">>

\* job m has gone past the i-th employee
GonePast(m, i) ==
  \/ jobs[m].status = "Completed"
  \/ jobs[m].status \in {"Running", "Failed"} /\ jobs[m].idx > i

\* an error thrown by a capture, an encoding or the save of the document is
\* rethrown by every export layer it passes and reaches the handler: the job
\* is Failed, each layer has logged the error once, and the handler has
\* answered the job's in-progress notification with exactly one failure
\* notification, which names no employee; a job is Failed only through
\* such an error
ThrownReachesHandler ==
  \A m \in Modes :
     LET ts == ToastsOf(m)
     IN  /\ jobs[m].err.cause # "none" =>
               /\ jobs[m].status = "Failed"
               /\ jobs[m].logged = CatchChain(m)
               /\ Len(ts) >= 2
               /\ ts[Len(ts)] = [id |-> ToastId(m), kind |-> "error", n |-> 0]
               /\ ts[Len(ts) - 1].kind = "loading"
         /\ jobs[m].status = "Failed" => jobs[m].err.cause # "none"

\* C15 as stated: every failure reaches the handler, a missing capture
\* target among them: besides the thrown errors, a DOM-lookup job that has
\* come to an employee whose front or back element is not found is Failed
\* and its last notification is the failure notification
C15_MissingTargetReachesHandler ==
  /\ ThrownReachesHandler
  /\ pipeline = "dom" =>
        \A m \in Modes : \A i \in 1..Len(employees) :
           (GonePast(m, i) /\ ~HasBothFaces(employees[i])) =>
              /\ jobs[m].status = "Failed"
              /\ ToastsOf(m)[Len(ToastsOf(m))].kind = "error"

\* C15: every error that is thrown inside the export pipeline (a rejected
\* rasterization, a failed encoding or document assembly, a failed save) is
\* rethrown by each export layer and reaches the handler, which issues
\* exactly one failure notification with no per-employee detail; a capture
\* target missing from the DOM is no failure: the employee is skipped, no
\* layer logs anything for it, no failed job names it, and a job that
\* throws nowhere else completes with the success notification
C15_FailureReachesHandler ==
  /\ ThrownReachesHandler
  /\ pipeline = "dom" =>
        \A m \in Modes :
           /\ EmployeeFailure(m) => jobs[m].err.emp \in Ids(Targets)
           /\ jobs[m].err.cause = "none" => jobs[m].logged = <<>>
           /\ jobs[m].status = "Completed" =>
                 /\ jobs[m].logged = <<>>
                 /\ ToastsOf(m)[Len(ToastsOf(m))].kind = "success"

\* a DOM-lookup individual-PDF job skipped its first employee, whose back
\* element is missing, and failed at the back of its second employee
C15_Witness ==
  /\ pipeline = "dom"
  /\ Len(employees) = 2
  /\ ~HasBothFaces(employees[1])
  /\ jobs["individual"].status = "Failed"
  /\ Len(jobs["individual"].log) = 2
  /\ jobs["individual"].log[1].emp = employees[2].id
  /\ jobs["individual"].err.side = "back"
  /\ jobs["individual"].idx = 2
  /\ jobs["individual"].logged = <<"single", "batch", "handler">>
  /\ toasts[Len(toasts)].kind = "error"

\* C16: within one job every (employee, side) is captured at most once, and
\* a capture that failed is the job's last capture: nothing is reattempted
C16_NoRetry ==
  \A m \in Modes :
     LET log == jobs[m].log
     IN  /\ \A i, j \in 1..Len(log) : log[i] = log[j] => i = j
         /\ EmployeeFailure(m) =>
               /\ log # <<>>
               /\ log[Len(log)] = [emp |-> jobs[m].err.emp, side |-> jobs[m].err.side]
         /\ jobs[m].err.cause # "none" => jobs[m].pc = "none"

\* a PNG job failed at the front of its second employee, after three captures
C16_Witness ==
  /\ jobs["png"].status = "Failed"
  /\ jobs["png"].err.cause = "capture"
  /\ Len(jobs["png"].log) = 3

(* --------------------- no timeout, no cancellation -------------------- *)

\* C17: while a capture is pending its job is Running, the trigger and the
\* menu items are disabled, and the only step that can be taken is the
\* settling of that capture: no timer ends the job, no handler cancels it and
\* no later employee is reached, however long the capture takes; and a job
\* leaves Running only in a step in which its export call resolves or
\* rejects, which issues the terminal notification
C17_RunsUntilSettled ==
  [][ \A m \in Modes :
         /\ jobs[m].pc = "capture" =>
               /\ jobs[m].status = "Running"
               /\ Disabled
               /\ \A m2 \in Modes : ~ENABLED Click(m2)
               /\ CaptureSettled(m)
         /\ (jobs[m].status = "Running" /\ jobs'[m].status # "Running") =>
               /\ CaptureSettled(m) \/ PaceElapsed(m)
               /\ jobs'[m].status \in {"Completed", "Failed"}
               /\ jobs'[m].pc = "none"
               /\ Len(toasts') = Len(toasts) + 1
               /\ toasts'[Len(toasts')].kind \in {"success", "error"}
    ]_vars

\* the front capture of the first of two employees is pending
C17_Witness ==
  /\ Len(employees) = 2
  /\ jobs["png"].pc = "capture"
  /\ jobs["png"].idx = 1
  /\ jobs["png"].side = "front"
  /\ isExporting

(* ------------------------- captures without target -------------------- *)

\* batch exports together with mounted cards and single export calls: a
\* behaviour is a batch behaviour or a card behaviour
AllInit == Init \/ CardInit

AllNext == Next \/ CardNext

AllSpec == AllInit /\ [][AllNext]_vars

\* a call of exportSingleCardAsPNG with a null element makes one capture
\* attempt, rejects, logs the error once, and triggers no download
NullTargetRejected ==
  (call # NoCall /\ call.target = "null") =>
     /\ call.attempts <= 1
     /\ call.files = <<>>
     /\ call.result # "resolved"
     /\ call.pc = "done" =>
           call.result = "rejected" /\ call.attempts = 1 /\ call.logged = 1

\* C18 as stated: a capture with a null target fails with an error that
\* reaches the caller, and so does the capture of an employee whose element
\* is not found in the DOM: a job that has come to such an employee has
\* failed with an error at that employee
C18_MissingTargetFails ==
  /\ NullTargetRejected
  /\ pipeline = "dom" =>
        \A m \in Modes : \A i \in 1..Len(employees) :
           (GonePast(m, i) /\ ~HasBothFaces(employees[i])) =>
              jobs[m].status = "Failed" /\ jobs[m].err.emp = employees[i].id

\* C18: a capture called with a null target fails with an error that reaches
\* the caller, is attempted once and is never reported as successful; the
\* DOM-lookup batch exports call no capture for an employee whose front or
\* back element is not found and raise no error for that employee
C18_NullTargetFails ==
  /\ NullTargetRejected
  /\ pipeline = "dom" =>
        \A m \in Modes :
           /\ \A i \in 1..Len(jobs[m].log) :
                 HasBothFaces(EmployeeOf(jobs[m].log[i].emp))
           /\ EmployeeFailure(m) =>
                 HasBothFaces(EmployeeOf(jobs[m].err.emp))

\* a single export called with a null element has rejected
C18_Witness ==
  /\ call # NoCall
  /\ call.target = "null"
  /\ call.pc = "done"
  /\ call.result = "rejected"
  /\ call.attempts = 1

(* --------------------------- addressable faces ------------------------ *)

\* C19: a mounted on-screen card exposes exactly two addressable elements,
\* a front and a back, both carrying the employee's id as data-card-id
C19_TwoAddressableFaces ==
  (card # NoCard /\ card.mounted /\ card.component = "CompactIDCard") =>
     card.faces = { [cardId |-> card.id, side |-> s] : s \in Sides }

(* ------------------------------ determinism --------------------------- *)

\* the file names of ds, in order
NamesOf(ds) == [i \in 1..Len(ds) |-> ds[i].name]

\* C20: when the same export has been run twice over the same employees and
\* the same document, the two runs give the same sequence of file names: the
\* names of a run that failed are a prefix of the names of the other run,
\* and two runs that completed give identical sequences
C20_SameNamesTwice ==
  \A m \in Modes :
     (started = 2 /\ jobs[m].status \in {"Completed", "Failed"}
        /\ \A m2 \in Modes \ {m} : jobs[m2].status = "Idle") =>
        LET first  == NamesOf(SubSeq(downloads, 1, jobs[m].dlStart))
            second == NamesOf(JobDownloads(m))
            ts     == ToastsOf(m)
        IN  /\ Len(ts) = 4
            /\ IsPrefix(first, second) \/ IsPrefix(second, first)
            /\ (ts[2].kind = "success" /\ ts[4].kind = "success") =>
                  first = second

\* the PNG export has completed twice over two employees
C20_Witness ==
  /\ started = 2
  /\ Len(employees) = 2
  /\ jobs["png"].status = "Completed"
  /\ jobs["png"].dlStart = 4
  /\ Len(downloads) = 8

(* --------------------------- the combined PDF ------------------------- *)

\* C21: a combined-PDF job saves at most one file; a file is saved only by a
\* job that has gone through the whole list, having captured front and back
\* of every capturable employee, and is the combined document; a job in
\* which a capture or an encoding failed has saved nothing
C21_AllOrNothing ==
  LET ds == JobDownloads("pdf")
      j  == jobs["pdf"]
  IN  /\ Len(ds) <= 1
      /\ ds # <<>> =>
            /\ j.status = "Completed"
            /\ j.err.cause = "none"
            /\ IsFrontBackOf(j.log, Targets)
            /\ ds[1].name = CombinedName
            /\ ds[1].pages = j.pdf
      /\ j.status = "Completed" => Len(ds) = 1
      /\ j.status \in {"Running", "Failed"} => ds = <<>>

\* a combined-PDF job failed at its second employee, the first employee's
\* two pages already in the document, and saved nothing
C21_Witness ==
  /\ jobs["pdf"].status = "Failed"
  /\ jobs["pdf"].idx = 2
  /\ Len(jobs["pdf"].pdf) = 2
  /\ JobDownloads("pdf") = <<>>

(* ----------------------------- one job at a time --------------------- *)

\* the handlers whose job is Running in js
RunningIn(js) == { m \in Modes : js[m].status = "Running" }

\* C22: at most one job is Running before and after every step; while a job
\* is Running isExporting is true and no menu item can be clicked; and a job
\* starts only in a step taken when no job is Running, every earlier job
\* being Completed or Failed
C22_OneJobRunning ==
  [][ /\ Cardinality(RunningIn(jobs)) <= 1
      /\ Cardinality(RunningIn(jobs')) <= 1
      /\ RunningIn(jobs) # {} =>
            isExporting /\ Disabled /\ \A m \in Modes : ~ENABLED Click(m)
      /\ started' # started =>
            /\ RunningIn(jobs) = {}
            /\ ~isExporting
            /\ \A m \in Modes : jobs[m].status \in {"Idle", "Completed", "Failed"}
            /\ isExporting' = (RunningIn(jobs') # {})
    ]_vars

\* a combined-PDF job runs after a PNG job has failed
C22_Witness ==
  /\ started = 2
  /\ jobs["png"].status = "Failed"
  /\ jobs["pdf"].status = "Running"
  /\ isExporting

(* ---------------------------- order of captures ----------------------- *)

\* C23: in every mode the captures a job has started are, in order, the
\* front and then the back of the first capturable employee, the front and
\* then the back of the second, and so on in the order of the list; a new
\* capture starts only when no other capture of the job is pending
C23_FrontThenBackInOrder ==
  \A m \in Modes :
     LET log == jobs[m].log
     IN  /\ Len(log) <= 2 * Len(Targets)
         /\ \A i \in 1..Len(log) :
               log[i] = [emp  |-> Targets[(i + 1) \div 2].id,
                         side |-> IF i % 2 = 1 THEN "front" ELSE "back"]
         /\ jobs[m].pc = "capture" => inFlight = 1

\* the front of the second employee is being captured in individual-PDF
\* mode, after both sides of the first
C23_Witness ==
  /\ Len(employees) = 2
  /\ jobs["individual"].pc = "capture"
  /\ Len(jobs["individual"].log) = 3
  /\ jobs["individual"].log[3] = [emp |-> employees[2].id, side |-> "front"]

(* ------------------------ steps of renderAndCapture ------------------- *)

\* C24: in the off-screen pipeline the steps of a capture come in one order.
\* A job enters the settle delay in the step that attaches a container; the
\* only step out of the settle delay is its elapsing, which takes the
\* capture and leaves the containers alone; a capture is pending only after
\* a settle delay; and a container is removed only in a step in which a
\* pending capture finishes, of which the capture that resolved has its
\* container removed and the capture that rejected has not
C24_MountSettleCaptureTeardown ==
  [][ pipeline = "offscreen" =>
        \A m \in Modes :
           LET mounts == IF jobs'[m].pc = "settle" THEN 1 ELSE 0
               rejected == jobs'[m].err.cause = "capture"
           IN  /\ (jobs[m].pc \notin {"settle", "capture"} /\ jobs'[m].pc = "settle") =>
                     containers' = containers + 1 /\ inFlight' = 0
               /\ (jobs[m].pc = "settle" /\ jobs'[m] # jobs[m]) =>
                     /\ jobs'[m].pc = "capture"
                     /\ containers' = containers
                     /\ containers >= 1
                     /\ inFlight = 0 /\ inFlight' = 1
               /\ (jobs'[m].pc = "capture" /\ jobs'[m] # jobs[m]) =>
                     jobs[m].pc = "settle"
               /\ (jobs[m].pc = "capture" /\ jobs'[m] # jobs[m]) =>
                     /\ inFlight' = 0
                     /\ containers' =
                          containers - (IF rejected THEN 0 ELSE 1) + mounts
               /\ containers' < containers =>
                     \E m2 \in Modes : jobs[m2].pc = "capture" /\ CaptureSettled(m2)
    ]_vars

\* the back of an employee is being captured off-screen, one container
\* attached
C24_Witness ==
  /\ pipeline = "offscreen"
  /\ jobs["png"].pc = "capture"
  /\ jobs["png"].side = "back"
  /\ containers = 1
  /\ inFlight = 1

(* ------------------------ pages of the combined PDF ------------------- *)

\* C25: in the DOM-lookup pipeline the saved combined PDF has exactly 2K
\* pages, K the number of employees with both elements found, and every page
\* holds exactly one card image, for every K >= 0
C25_TwoKPagesNoBlank ==
  (pipeline = "dom" /\ jobs["pdf"].status = "Completed") =>
     \A i \in 1..Len(JobDownloads("pdf")) :
        LET pages == JobDownloads("pdf")[i].pages
        IN  /\ Len(pages) = 2 * Len(SelectSeq(employees, HasBothFaces))
            /\ \A p \in 1..Len(pages) : Len(pages[p].imgs) = 1

(* ------------------------ the two pipelines agree --------------------- *)

\* front and back pages of the employees es, one image a page
CardPagesOf(es) ==
  [i \in 1..(2 * Len(es)) |->
     [w |-> PageW, h |-> PageH,
      imgs |-> << [emp |-> es[(i + 1) \div 2].id,
                   side |-> IF i % 2 = 1 THEN "front" ELSE "back",
                   w |-> PageW, h |-> PageH] >>]]

BaseName(e) == RunsUnderscored(e.name) \o <<"_">> \o e.employeeId

\* the output of mode m over the employees es, as a function of m and es
\* alone: the file names in order and the pages of each PDF in order
ExpectedFiles(m, es) ==
  CASE m = "png" ->
         [i \in 1..(2 * Len(es)) |->
            LET e == es[(i + 1) \div 2]
                side == IF i % 2 = 1 THEN "front" ELSE "back"
            IN  [kind |-> "png", emp |-> e.id, side |-> side, pages |-> <<>>,
                 name |-> BaseName(e) \o <<"_">> \o SideChars(side)
                            \o <<".","p","n","g">>]]
    [] m = "pdf" ->
         << [kind |-> "pdf", emp |-> "all", side |-> "both",
             pages |-> CardPagesOf(es), name |-> CombinedName] >>
    [] m = "individual" ->
         [i \in 1..Len(es) |->
            [kind |-> "pdf", emp |-> es[i].id, side |-> "both",
             pages |-> CardPagesOf(<<es[i]>>),
             name |-> BaseName(es[i]) \o <<".","p","d","f">>]]

\* C26: when every capture of a job succeeded and, in the DOM-lookup
\* pipeline, every employee has both elements, the files the job produced are
\* ExpectedFiles of its mode and the employee list, whichever pipeline is
\* linked: the two pipelines give the same file names in the same order and
\* the same pages in the same order
C26_PipelinesAgree ==
  \A m \in Modes :
     (/\ jobs[m].status = "Completed"
      /\ pipeline = "dom" => \A i \in 1..Len(employees) : HasBothFaces(employees[i]))
     => JobDownloads(m) = ExpectedFiles(m, employees)

\* the DOM-lookup pipeline has completed an individual-PDF job over two
\* employees that have both elements
C26_Witness ==
  /\ pipeline = "dom"
  /\ Len(employees) = 2
  /\ \A i \in 1..2 : HasBothFaces(employees[i])
  /\ jobs["individual"].status = "Completed"
  /\ Len(JobDownloads("individual")) = 2

(* ------------------------- temporary containers ----------------------- *)

\* C27: at most one temporary container is attached to the document at any
\* moment, and when the job that ran last has Completed none is attached
C27_AtMostOneContainer ==
  /\ containers <= 1
  /\ \A m \in Modes :
        (jobs[m].status = "Completed" /\ RunningIn(jobs) = {}
           /\ jobs[m].dlEnd = Len(downloads) /\ toasts[Len(toasts)].id = ToastId(m))
        => containers = 0

(* ------------------------------ termination --------------------------- *)

\* every timer that was started fires and every html2canvas promise settles
Settling ==
  \A m \in Modes :
     /\ WF_vars(SettleElapsed(m))
     /\ WF_vars(CaptureSettled(m))
     /\ WF_vars(PaceElapsed(m))

LiveSpec == Init /\ [][Next]_vars /\ Settling

\* C28: if every capture and every delay settles, every job that is Running
\* comes to Completed or Failed with isExporting false and the trigger
\* enabled again; and whenever no job is Running, after a success as after a
\* failure, isExporting is false
C28_JobsTerminate ==
  /\ \A m \in Modes :
        (jobs[m].status = "Running") ~>
           (jobs[m].status \in {"Completed", "Failed"} /\ ~isExporting /\ ~Disabled)
  /\ [](RunningIn(jobs) = {} => ~isExporting /\ ~Disabled)

\* a job has failed, isExporting is false again and a menu item can be
\* clicked
C28_Witness ==
  /\ started = 1
  /\ jobs["pdf"].status = "Failed"
  /\ ~isExporting
  /\ ENABLED Click("png")

(* -------------------------------- pacing ------------------------------ *)

\* this step begins the capture of side s in job m: the element is handed
\* to html2canvas (DOM lookup) or the container is mounted (off-screen)
StartsSide(m, s) ==
  /\ jobs'[m] # jobs[m]
  /\ jobs[m].pc # "settle"
  /\ jobs'[m].pc = (IF pipeline = "offscreen" THEN "settle" ELSE "capture")
  /\ jobs'[m].side = s

\* the delay that follows an employee in mode m
EmployeeDelayMs(m) ==
  CASE m = "png" -> PngEmployeeDelayMs
    [] m = "pdf" -> PdfEmployeeDelayMs
    [] m = "individual" -> IndividualDelayMs

\* C29 as stated: in every mode the back capture of an employee begins when
\* a pacing delay that followed the front has elapsed, and the next
\* employee's capture begins when a longer delay has elapsed
C29_DelayBetweenSides ==
  [][ \A m \in Modes :
         /\ StartsSide(m, "back") => jobs[m].pc = "pace"
         /\ (StartsSide(m, "front") /\ jobs[m].status = "Running") =>
               jobs[m].pc = "pace" /\ jobs[m].delay > SideDelayMs
    ]_vars

\* C29: in PNG mode the back capture begins when a 100 ms delay after the
\* front has elapsed; in combined-PDF and individual-PDF mode it begins in
\* the step in which the front capture settles, with no pacing delay. In
\* every mode a delay follows each captured employee (200 ms PNG, 100 ms
\* combined PDF, 300 ms individual PDF): the next employee's capture, or the
\* end of the job, comes when it has elapsed
C29_DelayPerMode ==
  [][ \A m \in Modes :
         /\ StartsSide(m, "back") =>
               IF m = "png"
               THEN jobs[m].pc = "pace" /\ jobs[m].delay = SideDelayMs
               ELSE jobs[m].pc = "capture" /\ jobs[m].side = "front"
         /\ (StartsSide(m, "front") /\ jobs[m].status = "Running") =>
               jobs[m].pc = "pace" /\ jobs[m].delay = EmployeeDelayMs(m)
         /\ (jobs[m].status = "Running" /\ jobs'[m].status = "Completed") =>
               jobs[m].pc = "pace" /\ jobs[m].delay = EmployeeDelayMs(m)
         /\ jobs[m].pc = "pace" =>
               /\ jobs[m].delay \in {SideDelayMs, EmployeeDelayMs(m)}
               /\ jobs[m].delay = SideDelayMs =>
                     (m = "png" /\ jobs[m].side = "front") \/ m = "pdf"
    ]_vars

\* a PNG job waits the 100 ms between the front and the back of its second
\* employee
C29_Witness ==
  /\ jobs["png"].pc = "pace"
  /\ jobs["png"].delay = SideDelayMs
  /\ jobs["png"].side = "front"
  /\ jobs["png"].idx = 2

(* ------------------------------ photo upload -------------------------- *)

\* C30: isUploading is true exactly while handlePhotoChange waits for
\* onPhotoUpdate with a selected file, and is false whenever the handler is
\* not running: after a file refused by validation, after an upload that
\* succeeded, after an upload that failed, and when no callback is given;
\* every file passed to onPhotoUpdate was accepted by validation, and every
\* notice of a refused file came without a call of onPhotoUpdate
C30_UploadingOnlyWhileProcessing ==
  (card # NoCard /\ card.component = "CompactIDCard") =>
     /\ card.isUploading <=> card.upload = "awaiting"
     /\ card.upload = "awaiting" => card.mounted /\ card.onPhotoUpdate
     /\ \A i \in 1..Len(card.sent) : card.sent[i] = "valid"
     /\ ~card.onPhotoUpdate => card.sent = <<>>
     /\ LET settled == Cardinality({i \in 1..Len(card.notices) :
                          card.notices[i] \in {"Photo Updated", "Upload Failed"}})
        IN  Len(card.sent) = settled + (IF card.upload = "awaiting" THEN 1 ELSE 0)

\* a first file was uploaded and the upload failed, a second file was
\* refused by validation, and isUploading is false
C30_Witness ==
  /\ card # NoCard /\ card.component = "CompactIDCard" /\ card.mounted
  /\ card.notices = <<"Upload Failed", "Invalid Image">>
  /\ card.sent = <<"valid">>
  /\ ~card.isUploading

====
